---- MODULE Spec2Model ----
(***************************************************************************)
(* Model of geomagio.iaga2002.IAGA2002Factory: the day enumerator          *)
(* (_get_days), the url resolver (_get_url and its four vocabulary         *)
(* lookups), the day slicer (_get_slice), and the read path                *)
(* (get_timeseries) and write path (put_timeseries) built on them.         *)
(*                                                                         *)
(* An instant (obspy UTCDateTime) is a record [s, us]: whole seconds since *)
(* the epoch and microseconds within the second.  A stream is the set of   *)
(* its sample instants.  A url or file name is the sequence of the pieces  *)
(* the template is made of, so that prefix tests and substitutions are     *)
(* computed and not assumed.                                               *)
(***************************************************************************)
EXTENDS Integers, Sequences, FiniteSets, TLC

\* ---------------------------------------------------------------- bounds
\* First calendar day of the modelled window, in days since 1970-01-01
\* (18320 is 2020-02-28, so the window crosses a leap day and a month end).
BaseDay == 18320
\* The window holds the days BaseDay .. BaseDay + MaxSpan.
MaxSpan == 2

\* ------------------------------------------------------------- constants
SecondsPerDay == 86400
MinuteSliceSeconds == 86340
OtherSliceSeconds == 86399
OtherSliceMicros == 999999

\* ------------------------------------------------------------------ time
T(sec, usec) == [s |-> sec, us |-> usec]

\* Python's None for an optional UTCDateTime argument.
NoTime == T(0 - 1, 0)

TimeLT(a, b) == a.s < b.s \/ (a.s = b.s /\ a.us < b.us)
TimeLE(a, b) == a = b \/ TimeLT(a, b)

\* UTCDateTime + seconds (float seconds given as whole seconds and micros).
TimeAdd(t, dsec, dusec) ==
    LET u == t.us + dusec
    IN  T(t.s + dsec + (u \div 1000000), u % 1000000)

\* (year, month, day) of an instant: the proleptic Gregorian date of the
\* whole days since the epoch, as UTCDateTime.year/.month/.day compute it.
YMD(t) ==
    LET z   == (t.s \div SecondsPerDay) + 719468
        era == z \div 146097
        doe == z - era * 146097
        yoe == (doe - (doe \div 1460) + (doe \div 36524) - (doe \div 146096)) \div 365
        doy == doe - (365 * yoe + (yoe \div 4) - (yoe \div 100))
        mp  == (5 * doy + 2) \div 153
        d   == doy - ((153 * mp + 2) \div 5) + 1
        m   == IF mp < 10 THEN mp + 3 ELSE mp - 9
        y   == yoe + era * 400 + (IF m <= 2 THEN 1 ELSE 0)
    IN  <<y, m, d>>

\* UTCDateTime(year, month, day, 0, 0, 0): the instant of a date's midnight.
FromYMD(ymd) ==
    LET y   == ymd[1] - (IF ymd[2] <= 2 THEN 1 ELSE 0)
        era == y \div 400
        yoe == y - era * 400
        mp  == IF ymd[2] > 2 THEN ymd[2] - 3 ELSE ymd[2] + 9
        doy == ((153 * mp + 2) \div 5) + ymd[3] - 1
        doe == yoe * 365 + (yoe \div 4) - (yoe \div 100) + doy
    IN  T((era * 146097 + doe - 719468) * SecondsPerDay, 0)

\* date.strftime("%Y%m%d")
Strftime(t) ==
    LET ymd == YMD(t) IN ToString(ymd[1] * 10000 + ymd[2] * 100 + ymd[3])

\* ------------------------------------------------------------ vocabulary
Ok(v) == [raised |-> FALSE, value |-> v]
Raise(e) == [raised |-> TRUE, value |-> e]

_get_interval_abbreviation(interval) ==
    CASE interval = "daily"   -> Ok("day")
      [] interval = "hourly"  -> Ok("hor")
      [] interval = "minute"  -> Ok("min")
      [] interval = "monthly" -> Ok("mon")
      [] interval = "second"  -> Ok("sec")
      [] OTHER                -> Raise("Unexpected interval")

_get_interval_name(interval) ==
    CASE interval = "minute" -> Ok("OneMinute")
      [] interval = "second" -> Ok("OneSecond")
      [] OTHER               -> Raise("Unsupported interval")

_get_type_abbreviation(type) ==
    CASE type = "definitive"       -> Ok("d")
      [] type = "provisional"      -> Ok("p")
      [] type = "quasi-definitive" -> Ok("q")
      [] type = "variation"        -> Ok("v")
      [] OTHER                     -> Raise("Unexpected type")

_get_type_name(type) ==
    CASE type = "variation"        -> Ok("")
      [] type = "quasi-definitive" -> Ok("QuasiDefinitive")
      [] OTHER                     -> Raise("Unsupported type")

\* str.lower() / str.upper() on the observatory codes of the model.
Lower(obs) == CASE obs = "BOU" -> "bou" [] obs = "bou" -> "bou" [] OTHER -> obs
Upper(obs) == CASE obs = "BOU" -> "BOU" [] obs = "bou" -> "BOU" [] OTHER -> obs

\* x or y, for the optional string arguments ("None" is Python's None).
OrDefault(arg, default) == IF arg = "None" THEN default ELSE arg
\* x or y, for the optional UTCDateTime arguments.
OrDefaultTime(arg, default) == IF arg = NoTime THEN default ELSE arg

\* template % mapping: every %(name)s piece is replaced by mapping[name].
Placeholders == {"%(i)s", "%(interval)s", "%(obs)s", "%(OBS)s", "%(t)s",
                 "%(type)s", "%(ymd)s"}
Substitute(template, mapping) ==
    [k \in 1..Len(template) |->
        IF template[k] \in Placeholders THEN mapping[template[k]]
        ELSE template[k]]

\* The mapping is built before the substitution, its values in the order
\* written; the first lookup that raises ends the call.
_get_url_never_raises(urlTemplate, observatory, date, type, interval) ==
    Ok(Substitute(urlTemplate,
        [p \in Placeholders |->
            CASE p = "%(i)s"        -> _get_interval_abbreviation(interval).value
              [] p = "%(interval)s" -> _get_interval_name(interval).value
              [] p = "%(obs)s"      -> Lower(observatory)
              [] p = "%(OBS)s"      -> Upper(observatory)
              [] p = "%(t)s"        -> _get_type_abbreviation(type).value
              [] p = "%(type)s"     -> _get_type_name(type).value
              [] OTHER              -> Strftime(date)]))

_get_url(urlTemplate, observatory, date, type, interval) ==
    LET i   == _get_interval_abbreviation(interval)
        inm == _get_interval_name(interval)
        t   == _get_type_abbreviation(type)
        tnm == _get_type_name(type)
    IN  CASE i.raised   -> i
          [] inm.raised -> inm
          [] observatory = "None" -> Raise("AttributeError")
          [] t.raised   -> t
          [] tnm.raised -> tnm
          [] OTHER ->
               Ok(Substitute(urlTemplate,
                   [p \in Placeholders |->
                       CASE p = "%(i)s"        -> i.value
                         [] p = "%(interval)s" -> inm.value
                         [] p = "%(obs)s"      -> Lower(observatory)
                         [] p = "%(OBS)s"      -> Upper(observatory)
                         [] p = "%(t)s"        -> t.value
                         [] p = "%(type)s"     -> tnm.value
                         [] OTHER              -> Strftime(date)]))

\* str.startswith('file://')
StartsWithAnything(pieces) == TRUE
StartsWithFile(pieces) == Len(pieces) > 0 /\ pieces[1] = "file://"

\* url.replace('file://', ''): every occurrence is removed.
RECURSIVE StripFile(_)
StripFile(pieces) ==
    IF pieces = <<>> THEN <<>>
    ELSE IF Head(pieces) = "file://" THEN StripFile(Tail(pieces))
    ELSE <<Head(pieces)>> \o StripFile(Tail(pieces))

\* os.path.dirname: everything before the last "/" piece.
RECURSIVE Dirname(_)
Dirname(pieces) ==
    IF pieces = <<>> THEN <<>>
    ELSE IF pieces[Len(pieces)] = "/" THEN SubSeq(pieces, 1, Len(pieces) - 1)
    ELSE Dirname(SubSeq(pieces, 1, Len(pieces) - 1))

\* ------------------------------------------------------------ _get_days
RangeInvalidOrEqual(starttime, endtime) == ~TimeLT(starttime, endtime)
\* starttime > endtime
RangeInvalid(starttime, endtime) == TimeLT(endtime, starttime)

FirstDayAtMidnight(starttime) == FromYMD(YMD(starttime))
\* day = starttime
FirstDay(starttime) == starttime

NextHalfDay(day) == TimeAdd(day, SecondsPerDay \div 2, 0)
\* day = UTCDateTime(day.timestamp + 86400)
NextDay(day) == TimeAdd(day, SecondsPerDay, 0)

\* ----------------------------------------------------------- _get_slice
SliceEndWholeDay(start, interval) == TimeAdd(start, SecondsPerDay, 0)
SliceEnd(start, interval) ==
    IF interval = "minute" THEN TimeAdd(start, MinuteSliceSeconds, 0)
    ELSE TimeAdd(start, OtherSliceSeconds, OtherSliceMicros)

\* timeseries.slice(start, end) / timeseries.trim(start, end)
Within(samples, start, end) ==
    {x \in samples : TimeLE(start, x) /\ TimeLE(x, end)}

_get_slice(samples, day, interval) ==
    LET start == FromYMD(YMD(day))
        end   == SliceEnd(start, interval)
    IN  [start |-> start, end |-> end, samples |-> Within(samples, start, end)]

\* -------------------------------------------------------------- read_url
\* urlopen may raise; read may raise URLError, which is printed and raised
\* again; otherwise the content stored at the url is returned (a content is
\* identified by the url it is stored at).
read_url_swallowing(u, outcome) ==
    CASE outcome = "open_error" -> Raise("URLError")
      [] outcome = "read_error" -> Ok(<<>>)
      [] OTHER                  -> Ok(u)
read_url(u, outcome) ==
    CASE outcome = "open_error" -> Raise("URLError")
      [] outcome = "read_error" -> Raise("URLError")
      [] OTHER                  -> Ok(u)

\* ------------------------------------------------------------ the inputs
InputTods == {<<0, 0>>, <<43200, 0>>, <<86399, 999999>>}
SampleTods == {<<0, 0>>, <<43200, 0>>, <<86340, 0>>, <<86370, 0>>,
               <<86399, 999999>>}

Midnight(d) == T((BaseDay + d) * SecondsPerDay, 0)

InputTimes ==
    {TimeAdd(Midnight(d), tod[1], tod[2]) : d \in 0..MaxSpan, tod \in InputTods}

\* The samples a complete day file holds.
DaySamples(midnight) ==
    {TimeAdd(midnight, tod[1], tod[2]) : tod \in SampleTods}

AllSamples == UNION {DaySamples(Midnight(d)) : d \in 0..MaxSpan}

\* The streams handed to put_timeseries: one station, contiguous samples.
Streams ==
    {[station |-> "BOU", samples |-> Within(AllSamples, a, b)] :
        a \in {Midnight(0), TimeAdd(Midnight(0), 43200, 0)},
        b \in {TimeAdd(Midnight(0), 86399, 999999),
               TimeAdd(Midnight(MaxSpan), 43200, 0)}}

\* stats.starttime / stats.endtime of the first trace
MinTime(S) == CHOOSE x \in S : \A y \in S : TimeLE(x, y)
MaxTime(S) == CHOOSE x \in S : \A y \in S : TimeLE(y, x)

FileTemplate == <<"file://", "/", "data", "/", "%(OBS)s", "/", "%(obs)s",
                  "%(ymd)s", "%(t)s", "%(i)s", ".", "%(i)s">>
WebTemplate == <<"https://", "host", "/", "%(interval)s", "/", "%(type)s",
                 "/", "%(obs)s", "%(ymd)s", "%(t)s", "%(i)s", ".", "%(i)s">>
Templates == {FileTemplate, WebTemplate}

DefaultTypes == {"None", "variation"}
DefaultIntervals == {"minute", "hourly"}
ArgTypes == {"None", "quasi-definitive", "bogus"}
ArgIntervals == {"None", "second", "bogus"}
AllTypes == {"definitive", "provisional", "quasi-definitive", "variation",
             "bogus", "None"}
AllIntervals == {"daily", "hourly", "minute", "monthly", "second", "bogus",
                 "None"}

\* ----------------------------------------------------------------- state
VARIABLES
    self,            \* the factory: urlTemplate, observatory, type, interval
    fs,              \* file name -> [samples, complete]
    dirs,            \* the directories that exist
    op,              \* the method called
    pc,              \* the position in it
    args,            \* the arguments as passed
    starttime, endtime, observatory, type, interval,   \* the locals
    timeseries,      \* the stream: given (put) or accumulated (get)
    days, day, lastday,                                \* _get_days
    daysResult,      \* what _get_days did: none, running, returned, raised
    idx,             \* position of the for loop over days
    url, iagaFile, day_filename, day_timeseries,
    slices,          \* the [start, end] of every slice taken
    log,             \* the i/o and collaborator calls made, in order
    result           \* [status, value]: none, returned or raised

vars == <<self, fs, dirs, op, pc, args, starttime, endtime, observatory,
          type, interval, timeseries, days, day, lastday, daysResult, idx,
          url,
          iagaFile, day_filename, day_timeseries, slices, log, result>>

NoResult == [status |-> "none", value |-> "None"]
Returned == [status |-> "returned", value |-> "None"]
Raised(e) == [status |-> "raised", value |-> e]

Event(e, i, ok) == [ev |-> e, i |-> i, ok |-> ok]

NoArgs == [starttime |-> NoTime, endtime |-> NoTime, observatory |-> "None",
           type |-> "None", interval |-> "None"]

\* The longest list of days the window allows; the loop is capped one above.
MaxDays == MaxSpan + 2

Init ==
    /\ self \in [urlTemplate : Templates, observatory : {"BOU"},
                 type : DefaultTypes, interval : DefaultIntervals]
    /\ fs = [f \in {} |-> 0]
    /\ dirs = {}
    /\ op = "none"
    /\ pc = "idle"
    /\ args = NoArgs
    /\ starttime = NoTime
    /\ endtime = NoTime
    /\ observatory = "None"
    /\ type = "None"
    /\ interval = "None"
    /\ timeseries = {}
    /\ days = <<>>
    /\ day = NoTime
    /\ lastday = <<0, 0, 0>>
    /\ daysResult = "none"
    /\ idx = 0
    /\ url = <<>>
    /\ iagaFile = <<>>
    /\ day_filename = <<>>
    /\ day_timeseries = {}
    /\ slices = <<>>
    /\ log = <<>>
    /\ result = NoResult

\* ------------------------------------------------------------- _get_days
\* A direct call of _get_days(starttime, endtime).
GetDaysCall(s, e) ==
    /\ pc = "idle"
    /\ op' = "_get_days"
    /\ args' = [NoArgs EXCEPT !.starttime = s, !.endtime = e]
    /\ starttime' = s
    /\ endtime' = e
    /\ pc' = "days_check"
    /\ UNCHANGED <<self, fs, dirs, observatory, type, interval, timeseries,
                   days, day, lastday, idx, url, iagaFile, day_filename,
                   day_timeseries, slices, log, result,
                   daysResult>>

\* The range test and the set-up of the loop.
DaysCheck ==
    /\ pc = "days_check"
    /\ IF RangeInvalid(starttime, endtime)
       THEN /\ result' = Raised("starttime must be before endtime")
            /\ daysResult' = "raised"
            /\ pc' = "done"
            /\ UNCHANGED <<days, day, lastday>>
       ELSE /\ days' = <<>>
            /\ day' = FirstDay(starttime)
            /\ lastday' = YMD(endtime)
            /\ daysResult' = "running"
            /\ pc' = "days_loop"
            /\ UNCHANGED result
    /\ UNCHANGED <<self, fs, dirs, op, args, starttime, endtime, observatory,
                   type, interval, timeseries, idx, url, iagaFile,
                   day_filename, day_timeseries, slices, log>>

\* One pass of the while loop: append, then break or move to the next day.
\* On the break the list is returned to the caller.
DaysLoop ==
    /\ pc = "days_loop"
    /\ Len(days) < MaxDays
    /\ days' = Append(days, day)
    /\ IF lastday = YMD(day)
       THEN /\ pc' = CASE op = "get_timeseries" -> "get_url"
                       [] op = "put_timeseries" -> "put_url"
                       [] OTHER                 -> "done"
            /\ result' = IF op = "_get_days" THEN Returned ELSE result
            /\ daysResult' = "returned"
            /\ idx' = 1
            /\ timeseries' = IF op = "get_timeseries" THEN {} ELSE timeseries
            /\ UNCHANGED day
       ELSE /\ day' = NextDay(day)
            /\ UNCHANGED <<pc, result, idx, timeseries, daysResult>>
    /\ UNCHANGED <<self, fs, dirs, op, args, starttime, endtime, observatory,
                   type, interval, lastday, url, iagaFile, day_filename,
                   day_timeseries, slices, log>>

\* ---------------------------------------------------- _get_url, _get_slice
\* A direct call of _get_url(observatory, date, type, interval).
GetUrlCall(o, d, t, i) ==
    /\ pc = "idle"
    /\ op' = "_get_url"
    /\ args' = [NoArgs EXCEPT !.observatory = o, !.type = t, !.interval = i]
    /\ observatory' = o
    /\ type' = t
    /\ interval' = i
    /\ day' = d
    /\ LET r == _get_url(self.urlTemplate, o, d, t, i)
       IN  IF r.raised
           THEN result' = Raised(r.value) /\ UNCHANGED url
           ELSE result' = Returned /\ url' = r.value
    /\ pc' = "done"
    /\ UNCHANGED <<self, fs, dirs, starttime, endtime, timeseries, days,
                   lastday, idx, iagaFile, day_filename, day_timeseries,
                   slices, log,
                   daysResult>>

\* A direct call of _get_slice(timeseries, day, interval).
GetSliceCall(ts, d, i) ==
    /\ pc = "idle"
    /\ op' = "_get_slice"
    /\ args' = [NoArgs EXCEPT !.interval = i]
    /\ interval' = i
    /\ day' = d
    /\ timeseries' = ts.samples
    /\ LET sl == _get_slice(ts.samples, d, i)
       IN  /\ day_timeseries' = sl.samples
           /\ slices' = Append(slices, [start |-> sl.start, end |-> sl.end])
    /\ result' = Returned
    /\ pc' = "done"
    /\ UNCHANGED <<self, fs, dirs, starttime, endtime, observatory, type,
                   days, lastday, idx, url, iagaFile, day_filename, log,
                   daysResult>>

\* -------------------------------------------------------- get_timeseries
\* for day in days: whether another day follows the i-th
GetHasNext(i, ds) == i < Len(ds)

\* The call: the defaults are resolved, then _get_days runs.
GetTimeseriesCall(s, e, o, t, i) ==
    /\ pc = "idle"
    /\ op' = "get_timeseries"
    /\ args' = [starttime |-> s, endtime |-> e, observatory |-> o,
                type |-> t, interval |-> i]
    /\ observatory' = OrDefault(o, self.observatory)
    /\ type' = OrDefault(t, self.type)
    /\ interval' = OrDefault(i, self.interval)
    /\ starttime' = s
    /\ endtime' = e
    /\ pc' = "days_check"
    /\ UNCHANGED <<self, fs, dirs, timeseries, days, day, lastday, idx, url,
                   iagaFile, day_filename, day_timeseries, slices, log,
                   result,
                   daysResult>>

\* url = self._get_url(observatory, day, type, interval)
GetResolve ==
    /\ pc = "get_url"
    /\ LET r == _get_url(self.urlTemplate, observatory, days[idx], type,
                         interval)
       IN  /\ log' = Append(log, Event("url", idx, ~r.raised))
           /\ IF r.raised
              THEN result' = Raised(r.value) /\ pc' = "done" /\ UNCHANGED url
              ELSE url' = r.value /\ pc' = "get_read" /\ UNCHANGED result
    /\ UNCHANGED <<self, fs, dirs, op, args, starttime, endtime, observatory,
                   type, interval, timeseries, days, day, lastday, idx,
                   iagaFile, day_filename, day_timeseries, slices,
                   daysResult>>

\* iagaFile = read_url(url)
GetRead ==
    /\ pc = "get_read"
    /\ \E outcome \in {"ok", "open_error", "read_error"} :
         LET r == read_url(url, outcome)
         IN  /\ log' = Append(log, Event("fetch", idx, outcome = "ok"))
             /\ IF r.raised
                THEN /\ result' = Raised(r.value)
                     /\ pc' = "done"
                     /\ UNCHANGED iagaFile
                ELSE /\ iagaFile' = r.value
                     /\ pc' = "get_parse"
                     /\ UNCHANGED result
    /\ UNCHANGED <<self, fs, dirs, op, args, starttime, endtime, observatory,
                   type, interval, timeseries, days, day, lastday, idx, url,
                   day_filename, day_timeseries, slices,
                   daysResult>>

\* timeseries += self.parse_string(iagaFile); the parser may reject the text.
GetParse ==
    /\ pc = "get_parse"
    /\ \E ok \in BOOLEAN :
         /\ log' = Append(log, Event("parse", idx, ok))
         /\ IF ok
            THEN /\ timeseries' =
                      timeseries \cup DaySamples(FromYMD(YMD(days[idx])))
                 /\ IF GetHasNext(idx, days)
                    THEN idx' = idx + 1 /\ pc' = "get_url"
                    ELSE pc' = "get_merge" /\ UNCHANGED idx
                 /\ UNCHANGED result
            ELSE /\ result' = Raised("ParseError")
                 /\ pc' = "done"
                 /\ UNCHANGED <<timeseries, idx>>
    /\ UNCHANGED <<self, fs, dirs, op, args, starttime, endtime, observatory,
                   type, interval, days, day, lastday, url, iagaFile,
                   day_filename, day_timeseries, slices,
                   daysResult>>

\* timeseries.merge(); the stream library may refuse to merge.
GetMerge ==
    /\ pc = "get_merge"
    /\ \E ok \in BOOLEAN :
         /\ log' = Append(log, Event("merge", 0, ok))
         /\ IF ok
            THEN pc' = "get_trim" /\ UNCHANGED result
            ELSE result' = Raised("MergeError") /\ pc' = "done"
    /\ UNCHANGED <<self, fs, dirs, op, args, starttime, endtime, observatory,
                   type, interval, timeseries, days, day, lastday, idx, url,
                   iagaFile, day_filename, day_timeseries, slices,
                   daysResult>>

\* timeseries.trim(starttime, endtime); return timeseries
GetTrim ==
    /\ pc = "get_trim"
    /\ timeseries' = Within(timeseries, starttime, endtime)
    /\ log' = Append(log, Event("trim", 0, TRUE))
    /\ result' = Returned
    /\ pc' = "done"
    /\ UNCHANGED <<self, fs, dirs, op, args, starttime, endtime, observatory,
                   type, interval, days, day, lastday, idx, url, iagaFile,
                   day_filename, day_timeseries, slices,
                   daysResult>>

\* -------------------------------------------------------- put_timeseries
PutHasNextButLast(i, ds) == i + 1 < Len(ds)
\* for day in days: whether another day follows the i-th
PutHasNext(i, ds) == i < Len(ds)

\* os.makedirs creates the directory and every missing ancestor.
RECURSIVE Ancestors(_)
Ancestors(path) ==
    IF path = <<>> THEN {} ELSE {path} \cup Ancestors(Dirname(path))

\* open(name, 'w') creates the file or truncates it.
WriteFile(files, name, content) ==
    [f \in DOMAIN files \cup {name} |->
        IF f = name THEN content ELSE files[f]]

\* The call: the sink test, the defaults, then _get_days runs.
PutTimeseriesCall(ts, s, e, t, i) ==
    /\ pc = "idle"
    /\ op' = "put_timeseries"
    /\ args' = [starttime |-> s, endtime |-> e, observatory |-> "None",
                type |-> t, interval |-> i]
    /\ timeseries' = ts.samples
    /\ IF ~StartsWithFile(self.urlTemplate)
       THEN /\ result' = Raised("Only file urls are supported")
            /\ pc' = "done"
            /\ UNCHANGED <<observatory, type, interval, starttime, endtime>>
       ELSE /\ type' = OrDefault(t, self.type)
            /\ interval' = OrDefault(i, self.interval)
            /\ observatory' = ts.station
            /\ starttime' = OrDefaultTime(s, MinTime(ts.samples))
            /\ endtime' = OrDefaultTime(e, MaxTime(ts.samples))
            /\ pc' = "days_check"
            /\ UNCHANGED result
    /\ UNCHANGED <<self, fs, dirs, days, day, lastday, idx, url, iagaFile,
                   day_filename, day_timeseries, slices, log,
                   daysResult>>

\* day_filename = self._get_file_from_url(self._get_url(...)): the url is
\* resolved, must be a file url, and its parent directory is made if missing.
PutResolve ==
    /\ pc = "put_url"
    /\ LET r      == _get_url(self.urlTemplate, observatory, days[idx], type,
                              interval)
           name   == StripFile(r.value)
           parent == Dirname(name)
           l1     == Append(log, Event("url", idx, ~r.raised))
       IN  IF r.raised
           THEN /\ result' = Raised(r.value)
                /\ pc' = "done"
                /\ log' = l1
                /\ UNCHANGED <<url, day_filename, dirs>>
           ELSE /\ url' = r.value
                /\ IF ~StartsWithFile(r.value)
                   THEN /\ result' =
                             Raised("Only file urls are supported for writing")
                        /\ pc' = "done"
                        /\ log' = l1
                        /\ UNCHANGED <<day_filename, dirs>>
                   ELSE IF parent \in dirs
                   THEN /\ day_filename' = name
                        /\ pc' = "put_slice"
                        /\ log' = l1
                        /\ UNCHANGED <<result, dirs>>
                   ELSE \E ok \in BOOLEAN :
                        /\ log' = Append(l1, Event("makedirs", idx, ok))
                        /\ IF ok
                           THEN /\ dirs' = dirs \cup Ancestors(parent)
                                /\ day_filename' = name
                                /\ pc' = "put_slice"
                                /\ UNCHANGED result
                           ELSE /\ result' = Raised("OSError")
                                /\ pc' = "done"
                                /\ UNCHANGED <<day_filename, dirs>>
    /\ UNCHANGED <<self, fs, op, args, starttime, endtime, observatory, type,
                   interval, timeseries, days, day, lastday, idx, iagaFile,
                   day_timeseries, slices,
                   daysResult>>

\* day_timeseries = self._get_slice(timeseries, day, interval)
PutSlice ==
    /\ pc = "put_slice"
    /\ LET sl == _get_slice(timeseries, days[idx], interval)
       IN  /\ day_timeseries' = sl.samples
           /\ slices' = Append(slices, [start |-> sl.start, end |-> sl.end])
    /\ pc' = "put_open"
    /\ UNCHANGED <<self, fs, dirs, op, args, starttime, endtime, observatory,
                   type, interval, timeseries, days, day, lastday, idx, url,
                   iagaFile, day_filename, log, result,
                   daysResult>>

\* with open(day_filename, 'w') as fh
PutOpen ==
    /\ pc = "put_open"
    /\ \E ok \in BOOLEAN :
         /\ log' = Append(log, Event("open", idx, ok))
         /\ IF ok
            THEN /\ fs' = WriteFile(fs, day_filename,
                                    [samples |-> {}, complete |-> FALSE])
                 /\ pc' = "put_write"
                 /\ UNCHANGED result
            ELSE /\ result' = Raised("IOError")
                 /\ pc' = "done"
                 /\ UNCHANGED fs
    /\ UNCHANGED <<self, dirs, op, args, starttime, endtime, observatory,
                   type, interval, timeseries, days, day, lastday, idx, url,
                   iagaFile, day_filename, day_timeseries, slices,
                   daysResult>>

\* self.write_file(fh, day_timeseries, channels): the writer may fail after
\* any number of the samples; the file is closed either way.
PutWrite ==
    /\ pc = "put_write"
    /\ \/ /\ log' = Append(log, Event("write", idx, TRUE))
          /\ fs' = WriteFile(fs, day_filename,
                             [samples |-> day_timeseries, complete |-> TRUE])
          /\ IF PutHasNext(idx, days)
             THEN idx' = idx + 1 /\ pc' = "put_url" /\ UNCHANGED result
             ELSE result' = Returned /\ pc' = "done" /\ UNCHANGED idx
       \/ \E cut \in day_timeseries \cup {NoTime} :
          /\ log' = Append(log, Event("write", idx, FALSE))
          /\ fs' = WriteFile(fs, day_filename,
                     [samples  |-> {x \in day_timeseries : TimeLT(x, cut)},
                      complete |-> FALSE])
          /\ result' = Raised("WriteError")
          /\ pc' = "done"
          /\ UNCHANGED idx
    /\ UNCHANGED <<self, dirs, op, args, starttime, endtime, observatory,
                   type, interval, timeseries, days, day, lastday, url,
                   iagaFile, day_filename, day_timeseries, slices,
                   daysResult>>

\* --------------------------------------------------------- specification
Next ==
    \/ \E s \in InputTimes, e \in InputTimes : GetDaysCall(s, e)
    \/ DaysCheck
    \/ DaysLoop
    \/ \E o \in {"bou", "None"}, d \in InputTimes, t \in AllTypes,
          i \in AllIntervals : GetUrlCall(o, d, t, i)
    \/ \E ts \in Streams, d \in InputTimes, i \in AllIntervals :
          GetSliceCall(ts, d, i)
    \/ \E s \in InputTimes, e \in InputTimes, t \in ArgTypes,
          i \in ArgIntervals : GetTimeseriesCall(s, e, "None", t, i)
    \/ GetResolve
    \/ GetRead
    \/ GetParse
    \/ GetMerge
    \/ GetTrim
    \/ \E ts \in Streams, s \in InputTimes \cup {NoTime},
          e \in InputTimes \cup {NoTime}, i \in {"None", "second", "daily"} :
          PutTimeseriesCall(ts, s, e, "None", i)
    \/ PutResolve
    \/ PutSlice
    \/ PutOpen
    \/ PutWrite

Spec == Init /\ [][Next]_vars

\* ================================================================ claims
\* The calendar day of an instant, counted in whole days since the epoch.
DayNumber(t) == t.s \div 86400
\* The time of day of an instant, in whole seconds.
SecondOfDay(t) == t.s % 86400

\* The calendar days from the day of s to the day of e, both included.
DaysSpanned(s, e) == DayNumber(e) - DayNumber(s) + 1

\* The argument if given, else the configured default.
Effective(arg, default) == IF arg # "None" THEN arg ELSE default

\* ---------------------------------------------------------------------
\* C1: for starttime <= endtime, _get_days terminates and returns a
\* non-empty list with as many entries as there are calendar days from
\* starttime's day to endtime's day inclusive, whatever the times of day.
\* Termination: while the loop runs it can always take its next step, the
\* cursor is one calendar day further with every entry, and the entries
\* stay fewer than the days spanned.
C1_DaysSpanned ==
    /\ daysResult = "returned" =>
          /\ Len(days) >= 1
          /\ Len(days) = DaysSpanned(starttime, endtime)
    /\ pc = "days_loop" =>
          /\ TimeLE(starttime, endtime)
          /\ Len(days) < DaysSpanned(starttime, endtime)
          /\ DayNumber(day) = DayNumber(starttime) + Len(days)
          /\ ENABLED DaysLoop
    /\ pc = "days_check" => ENABLED DaysCheck

\* A returned list of several days, for a start later in its day than the
\* end is in its own.
C1_Witness ==
    /\ daysResult = "returned"
    /\ Len(days) >= 2
    /\ SecondOfDay(starttime) > SecondOfDay(endtime)

\* ---------------------------------------------------------------------
\* C2: _get_days raises 'starttime must be before endtime' if and only if
\* starttime is strictly after endtime, and then it has emitted no day.
C2_RangeErrorIff ==
    /\ daysResult = "raised" =>
          /\ TimeLT(endtime, starttime)
          /\ days = <<>>
          /\ result = Raised("starttime must be before endtime")
    /\ daysResult \in {"running", "returned"} => TimeLE(starttime, endtime)

\* Both outcomes of the test happen, one of them for starttime = endtime.
C2_Witness ==
    /\ op = "_get_days"
    /\ daysResult = "returned"
    /\ starttime = endtime

\* ---------------------------------------------------------------------
\* C3: _get_url succeeds for every interval of {daily, hourly, minute,
\* monthly, second} with every type of {definitive, provisional,
\* quasi-definitive, variation}, and raises the configuration error for any
\* interval or type outside its table.
IntervalTable == {"daily", "hourly", "minute", "monthly", "second"}
TypeTable == {"definitive", "provisional", "quasi-definitive", "variation"}

C3_ResolveTotalOnTables ==
    (op = "_get_url" /\ pc = "done" /\ args.observatory # "None") =>
        (result.status = "raised"
            <=> ~(args.interval \in IntervalTable /\ args.type \in TypeTable))

\* ---------------------------------------------------------------------
\* C4: get_timeseries with an unsupported effective type or interval fails,
\* and no fetch happens at any point of the call.
Unsupported(t, i) ==
    \/ t \notin {"variation", "quasi-definitive"}
    \/ i \notin {"minute", "second"}

C4_FailBeforeFetch ==
    (/\ op = "get_timeseries"
     /\ Unsupported(Effective(args.type, self.type),
                    Effective(args.interval, self.interval))) =>
        /\ \A k \in 1..Len(log) : log[k].ev # "fetch"
        /\ pc = "done" => result.status = "raised"

\* A call over several days that failed on a default interval the url
\* resolver rejects.
C4_Witness ==
    /\ op = "get_timeseries"
    /\ pc = "done"
    /\ args.interval = "None"
    /\ self.interval = "hourly"
    /\ Len(days) >= 2
    /\ result = Raised("Unsupported interval")

\* ---------------------------------------------------------------------
\* C5: put_timeseries on a factory whose template does not start with
\* 'file://' fails with the sink error, and no directory or file exists
\* afterwards and nothing was written.
C5_NonFileSinkWritesNothing ==
    (op = "put_timeseries" /\ Head(self.urlTemplate) # "file://") =>
        /\ pc = "done"
        /\ result = Raised("Only file urls are supported")
        /\ DOMAIN fs = {}
        /\ dirs = {}
        /\ log = <<>>

C5_Witness ==
    /\ op = "put_timeseries"
    /\ Head(self.urlTemplate) = "https://"
    /\ pc = "done"
    /\ args.starttime # NoTime

\* ---------------------------------------------------------------------
\* C6: put_timeseries handles the days in ascending order; a failure is the
\* last thing the call does and makes it raise; and when it returns, every
\* enumerated day has a completely written file.
C6_AllDaysOrFirstFailure ==
    op = "put_timeseries" =>
        /\ \A j, k \in 1..Len(log) : j < k =>
              /\ log[j].ok
              /\ log[j].i <= log[k].i
        /\ (\E k \in 1..Len(log) : ~log[k].ok) =>
              (pc = "done" /\ result.status = "raised")
        /\ (pc = "done" /\ result.status = "returned") =>
              /\ \A i \in 1..Len(days) :
                    \E k \in 1..Len(log) : log[k] = Event("write", i, TRUE)
              /\ Cardinality(DOMAIN fs) = Len(days)
              /\ \A f \in DOMAIN fs : fs[f].complete

\* A call over several days that returned.
C6_Witness ==
    /\ op = "put_timeseries"
    /\ pc = "done"
    /\ result.status = "returned"
    /\ Len(days) >= 2

\* ---------------------------------------------------------------------
\* C7: get_timeseries stops at the first fetch or parse that fails and
\* raises; when it returns, every enumerated day was resolved, fetched and
\* parsed once, in day order, and merge and trim came after the last day.
ExpectedGetLog(n) ==
    [k \in 1..(3 * n + 2) |->
        CASE k = 3 * n + 1 -> Event("merge", 0, TRUE)
          [] k = 3 * n + 2 -> Event("trim", 0, TRUE)
          [] k % 3 = 1     -> Event("url", (k + 2) \div 3, TRUE)
          [] k % 3 = 2     -> Event("fetch", (k + 1) \div 3, TRUE)
          [] OTHER         -> Event("parse", k \div 3, TRUE)]

C7_NoDaySkipped ==
    op = "get_timeseries" =>
        /\ \A j, k \in 1..Len(log) : j < k => log[j].ok
        /\ (\E k \in 1..Len(log) : ~log[k].ok) =>
              (pc = "done" /\ result.status = "raised")
        /\ \A k \in 1..Len(log) : log[k].ev \in {"merge", "trim"} =>
              /\ k > 3 * Len(days)
              /\ SubSeq(log, 1, 3 * Len(days))
                    = SubSeq(ExpectedGetLog(Len(days)), 1, 3 * Len(days))
        /\ (pc = "done" /\ result.status = "returned") =>
              log = ExpectedGetLog(DaysSpanned(starttime, endtime))

\* A call that returned after several days, and one that a failed read
\* ended on a later day.
C7_Witness ==
    /\ op = "get_timeseries"
    /\ pc = "done"
    /\ Len(days) >= 2
    /\ Len(log) >= 5
    /\ log[Len(log)] = Event("fetch", 2, FALSE)

\* ---------------------------------------------------------------------
\* C8 as stated: every instant _get_days emits is the 00:00:00 of its
\* calendar day.
C8_EmittedAtMidnight ==
    \A k \in 1..Len(days) : SecondOfDay(days[k]) = 0 /\ days[k].us = 0

\* C8 as amended: the instants _get_days emits are starttime and then the
\* same time of day on each following day (midnight only when starttime is
\* at midnight); they are strictly increasing, one per calendar day from
\* starttime's day on, and the last one returned is on endtime's day.
C8_EmittedKeepTimeOfDay ==
    /\ \A k \in 1..Len(days) :
          /\ days[k] = T(starttime.s + (k - 1) * 86400, starttime.us)
          /\ DayNumber(days[k]) = DayNumber(starttime) + k - 1
    /\ \A j, k \in 1..Len(days) : j < k => TimeLT(days[j], days[k])
    /\ daysResult = "returned" =>
          DayNumber(days[Len(days)]) = DayNumber(endtime)

C8_Witness ==
    /\ daysResult = "returned"
    /\ Len(days) >= 2
    /\ SecondOfDay(starttime) # 0

\* ---------------------------------------------------------------------
\* C9: with starttime and endtime given, put_timeseries stores no sample
\* earlier than starttime or later than endtime in any day file.
C9_OnlyWindowStored ==
    (/\ op = "put_timeseries"
     /\ args.starttime # NoTime
     /\ args.endtime # NoTime) =>
        \A f \in DOMAIN fs : \A x \in fs[f].samples :
            TimeLE(args.starttime, x) /\ TimeLE(x, args.endtime)

\* ---------------------------------------------------------------------
\* C10: every slice starts at the 00:00:00 of its day and ends 86340
\* seconds later for the interval 'minute', 86399.999999 seconds later for
\* any other interval; the slices of different days share no instant.
SliceDay(k) == IF op = "_get_slice" THEN day ELSE days[k]

C10_SliceSpan ==
    /\ \A k \in 1..Len(slices) :
          /\ slices[k].start = T(DayNumber(SliceDay(k)) * 86400, 0)
          /\ slices[k].end =
                IF interval = "minute"
                THEN T(slices[k].start.s + 86340, 0)
                ELSE T(slices[k].start.s + 86399, 999999)
    /\ \A j, k \in 1..Len(slices) :
          j < k => TimeLT(slices[j].end, slices[k].start)

\* Two days sliced by put_timeseries for days not given at midnight.
C10_Witness ==
    /\ op = "put_timeseries"
    /\ Len(slices) >= 2
    /\ interval = "second"
    /\ SecondOfDay(days[2]) # 0

\* A direct slice for an interval that is neither minute nor second.
C10_WitnessOtherInterval ==
    /\ op = "_get_slice"
    /\ interval = "daily"
    /\ Len(slices) = 1

====
